---------------------------- MODULE Spec2Model ----------------------------
(***************************************************************************)
(* State-machine model of the two motion detectors of the repository:      *)
(*   variant = "gemini"  : src/src/roxy/motion_gemini.py  (schedule-driven *)
(*                         day/night mode, region-area detection)          *)
(*   variant = "discord" : src/src/roxy/motion_discord.py (brightness-     *)
(*                         driven exposure, pixel-count detection)         *)
(* One behaviour runs one of the two programs; the variables of the other  *)
(* program keep their initial values.  Optional values (Python None) are   *)
(* sequences of length at most one: None is << >>, a value v is << v >>.   *)
(* Time is counted in seconds and advances in steps of TimeStep.           *)
(***************************************************************************)
EXTENDS Integers, Sequences, FiniteSets

VARIABLES
    variant,              \* which script is running
    pc,                   \* position of the (single) thread of control
    exit_cause,           \* why the loop was left: "none", "interrupt", "error", "fatal"
    clock,                \* time.monotonic() (gemini) / time.time() (discord), seconds
    wall,                 \* datetime.now().time(), as a slot of the day
    PICAMERA2_AVAILABLE,  \* motion_gemini.py:12-16
    DISCORD_WEBHOOK,      \* motion_gemini.py:21 module global
    send_discord_webhook, \* default of parameter webhook of send_discord, bound at def time
    args_no_discord,      \* --no-discord on the command line
    picam2,               \* "None", "created", "started", "stopped"
    video_capture,        \* "None", "closed", "opened", "released"
    controls,             \* controls last accepted by picam2.set_controls
    exposure_epoch,       \* number of changes of the accepted controls, modulo NumEpoch
    sunrise_time, sunset_time, is_daytime, last_sun_check,
    frame,                \* the frame of the current iteration
    prev_gray,            \* motion baseline of motion_gemini
    contours,             \* areas of the contours found at line 209, until line 215
    motion_detected,
    last_capture_time,
    prev_frame,           \* motion baseline of motion_discord
    last_motion_time, last_exposure_change, last_brightness, stable_frames,
    motion_pixels,        \* the count of line 119, until line 122
    capture_src,          \* backend the last capture_frame call read from
    saved,                \* cv2.imwrite wrote the image in this iteration
    persist_time,         \* time of the last successful cv2.imwrite
    send_result,          \* how the send of this iteration ended
    posted,               \* requests.post was issued in this iteration
    sun_refresh           \* how the sun refresh of this iteration ended, until its capture

vars == << variant, pc, exit_cause, clock, wall, PICAMERA2_AVAILABLE,
           DISCORD_WEBHOOK, send_discord_webhook, args_no_discord, picam2,
           video_capture, controls, exposure_epoch, sunrise_time, sunset_time,
           is_daytime, last_sun_check, frame, prev_gray, motion_detected,
           last_capture_time, prev_frame, last_motion_time,
           last_exposure_change, last_brightness, stable_frames, capture_src,
           saved, persist_time, send_result, posted, sun_refresh, contours,
           motion_pixels >>

\* variables written only by motion_gemini
gemini_vars == << PICAMERA2_AVAILABLE, DISCORD_WEBHOOK, send_discord_webhook,
                  args_no_discord, video_capture, sunrise_time, sunset_time,
                  is_daytime, last_sun_check, prev_gray, last_capture_time,
                  capture_src, wall, sun_refresh, contours >>

\* variables written only by motion_discord
discord_vars == << prev_frame, last_motion_time, last_exposure_change,
                   last_brightness, stable_frames, motion_pixels >>

None == << >>
Some(x) == << x >>

---------------------------------------------------------------------------
\* Bounds of the model
TimeStep == 5        \* granularity of the clock, seconds
MaxTime == 20        \* the clock advances at most this far past its start
StartEpoch == 20     \* time.time() when motion_discord starts
DayLen == 4          \* slots of the day distinguished by the wall clock
MaxStable == 6       \* motion_discord samples frames while stable_frames is below this
NumSeq == 2          \* frame sequence numbers are counted modulo this
NumEpoch == 4        \* exposure epochs are counted modulo this

\* Configuration of motion_gemini (environment overrides, motion_gemini.py:25-31)
MIN_AREA == 750
CAPTURE_INTERVAL == 5
SUN_CHECK_INTERVAL == 5

\* Configuration of motion_discord (motion_discord.py:11-13, 46, 105)
PIXEL_CHANGE_LIMIT == 2500
COOLDOWN == 10
EXPOSURE_DIFF == 70
EXPOSURE_DWELL == 15
STABLE_NEEDED == 5

\* motion_gemini.py:34, default
CAMERA_NOIR == FALSE

WEBHOOK_URL == "https://discord.com/api/webhooks/..."

TimesOfDay == 0 .. (DayLen - 1)
\* windows suntime may return: a short day and a long day
SunWindows == { [sunrise |-> 1, sunset |-> 2], [sunrise |-> 0, sunset |-> DayLen - 1] }
\* the window of the day the program starts on
FirstWindow == [sunrise |-> 1, sunset |-> 2]
\* areas cv2.contourArea may report for the contours of one difference map:
\* around MIN_AREA, and one region of 40 x 40 or of 20 x 20
ContourSets == { {}, {MIN_AREA - 1}, {MIN_AREA}, {MIN_AREA - 1, MIN_AREA - 2},
                 {40 * 40}, {20 * 20} }
SendOutcomes == { "ok", "http_error", "transport_error", "file_error" }
\* values of frame.mean(): dark, evening, daylight; 30 and 100 differ by
\* exactly EXPOSURE_DIFF
Brightnesses == { 30, 100, 171 }
\* values of cv2.countNonZero, around PIXEL_CHANGE_LIMIT
PixelCounts == { PIXEL_CHANGE_LIMIT - 1, PIXEL_CHANGE_LIMIT, PIXEL_CHANGE_LIMIT + 1 }

LoopPcs == { "top", "capture", "process", "diff", "trigger", "save", "send",
             "stamp", "rebase" }

---------------------------------------------------------------------------
\* motion_gemini.py

\* the dict Camera_setup passes to set_controls (AnalogueGain in tenths)
DayNightControls(is_daytime_flag, noir) ==
    IF is_daytime_flag
    THEN IF noir
         THEN [AeEnable |-> TRUE, ExposureTime |-> 2000, AnalogueGain |-> 15, AwbEnable |-> TRUE]
         ELSE [AeEnable |-> TRUE, ExposureTime |-> 1000, AnalogueGain |-> 10, AwbEnable |-> TRUE]
    ELSE IF noir
         THEN [AeEnable |-> FALSE, ExposureTime |-> 20000, AnalogueGain |-> 80, AwbEnable |-> FALSE]
         ELSE [AeEnable |-> FALSE, ExposureTime |-> 16000, AnalogueGain |-> 60, AwbEnable |-> FALSE]

\* picam2.set_controls(c): the device takes the controls; a change of the
\* accepted controls starts a new exposure epoch (epochs are numbered modulo
\* NumEpoch)
set_controls(c) ==
    /\ controls' = Some(c)
    /\ exposure_epoch' = IF controls = Some(c) THEN exposure_epoch
                         ELSE (exposure_epoch + 1) % NumEpoch

\* Camera_setup(is_daytime_flag); ok = set_controls did not raise
Camera_setup(is_daytime_flag, ok) ==
    IF PICAMERA2_AVAILABLE /\ picam2 # "None" /\ ok
    THEN set_controls(DayNightControls(is_daytime_flag, CAMERA_NOIR))
    ELSE UNCHANGED << controls, exposure_epoch >>

\* the frame the device delivers now: taken under the current exposure, one
\* later than the frame before it
NextFrame ==
    [epoch |-> exposure_epoch,
     seq |-> IF frame = None THEN 0 ELSE (frame[1].seq + 1) % NumSeq]

\* the backend capture_frame and Camera_setup select
UsesPicamera2 == PICAMERA2_AVAILABLE /\ picam2 # "None"

\* resize + cvtColor + GaussianBlur: the processed frame shows the same scene
\* under the same exposure
Gray(f) == [epoch |-> f.epoch, seq |-> f.seq]

\* the rate limiter with the interval left out of the comparison
CooldownElapsed_NoInterval(now, last) == (now - last) >= 0

\* the rate limiter of line 217
CooldownElapsed(now, last) == (now - last) >= CAPTURE_INTERVAL

\* lines 211-215 with the areas added up before the comparison (for the at
\* most two contours of ContourSets)
MotionDetected_TotalArea(found) ==
    \E c \in found, d \in found : (IF c = d THEN c ELSE c + d) >= MIN_AREA

\* lines 211-215
MotionDetected(found) == \E c \in found : c >= MIN_AREA

\* send_discord without the handler of line 130: transport and file errors
\* leave the function as exceptions
SendResult_Unhandled(webhook, outcome) ==
    IF webhook = "" THEN "skipped"
    ELSE IF outcome = "ok" THEN "ok"
    ELSE IF outcome = "http_error" THEN "failed" ELSE "raised"

\* outcome of send_discord(image_path) with the webhook it uses
SendResult(webhook, outcome) ==
    IF webhook = "" THEN "skipped"
    ELSE IF outcome = "ok" THEN "ok" ELSE "failed"

\* lines 243-253: the devices in use are stopped and released; an exception
\* of stop() or release() is swallowed
finally ==
    /\ picam2' = IF PICAMERA2_AVAILABLE /\ picam2 # "None" THEN "stopped" ELSE picam2
    /\ video_capture' = IF video_capture # "None" THEN "released" ELSE video_capture

\* what leaves the loop through the outer handlers of motion_detection_loop
\* (lines 239-242): the finally block runs and the function returns
Leave(cause) ==
    /\ exit_cause' = cause
    /\ finally
    /\ pc' = "returned"

main ==
    /\ variant = "gemini" /\ pc = "main"
    /\ DISCORD_WEBHOOK' = IF args_no_discord THEN "" ELSE DISCORD_WEBHOOK
    /\ pc' = "initialize_camera"
    /\ UNCHANGED << variant, exit_cause, clock, wall, PICAMERA2_AVAILABLE,
                    send_discord_webhook, args_no_discord, picam2, video_capture,
                    controls, exposure_epoch, sunrise_time, sunset_time,
                    is_daytime, last_sun_check, frame, prev_gray, motion_detected,
                    last_capture_time, capture_src, saved, persist_time,
                    send_result, posted,
                    sun_refresh >>
    /\ UNCHANGED contours
    /\ UNCHANGED discord_vars

\* fail_at: the step of the Picamera2 initialisation that raises ("none": no
\* step); opened: cv2.VideoCapture(0).isOpened()
initialize_camera ==
    /\ variant = "gemini" /\ pc = "initialize_camera"
    /\ \E fail_at \in { "none", "Picamera2", "configure", "start" }, opened \in BOOLEAN :
         IF PICAMERA2_AVAILABLE /\ fail_at = "none"
         THEN /\ picam2' = "started"
              /\ pc' = "Camera_setup"
              /\ UNCHANGED << video_capture, exit_cause >>
         ELSE /\ picam2' = IF PICAMERA2_AVAILABLE /\ fail_at # "Picamera2"
                           THEN "created" ELSE "None"
              /\ video_capture' = IF opened THEN "opened" ELSE "closed"
              /\ pc' = IF opened THEN "Camera_setup" ELSE "fatal"
              /\ exit_cause' = IF opened THEN exit_cause ELSE "fatal"
    /\ UNCHANGED << variant, clock, wall, PICAMERA2_AVAILABLE, DISCORD_WEBHOOK,
                    send_discord_webhook, args_no_discord, controls,
                    exposure_epoch, sunrise_time, sunset_time, is_daytime,
                    last_sun_check, frame, prev_gray, motion_detected,
                    last_capture_time, capture_src, saved, persist_time,
                    send_result, posted,
                    sun_refresh >>
    /\ UNCHANGED contours
    /\ UNCHANGED discord_vars

\* motion_detection_loop, line 162
loop_entry ==
    /\ variant = "gemini" /\ pc = "Camera_setup"
    /\ \E ok \in BOOLEAN : Camera_setup(is_daytime, ok)
    /\ pc' = "top"
    /\ UNCHANGED << variant, exit_cause, clock, wall, PICAMERA2_AVAILABLE,
                    DISCORD_WEBHOOK, send_discord_webhook, args_no_discord, picam2,
                    video_capture, sunrise_time, sunset_time, is_daytime,
                    last_sun_check, frame, prev_gray, motion_detected,
                    last_capture_time, capture_src, saved, persist_time,
                    send_result, posted,
                    sun_refresh >>
    /\ UNCHANGED contours
    /\ UNCHANGED discord_vars

\* the condition of line 168 replaced by one that holds in every iteration
SunCheckDue_EveryIteration(now, last) == now - last >= 0

\* the condition of line 168
SunCheckDue(now, last) == now - last > SUN_CHECK_INTERVAL

\* the body of the try of lines 169-182; fail_at names the line that raises
SunRefresh(fail_at, w, ok) ==
    /\ sunrise_time' = IF fail_at \in { "none", "sunset" } THEN Some(w.sunrise) ELSE sunrise_time
    /\ sunset_time' = IF fail_at = "none" THEN Some(w.sunset) ELSE sunset_time
    /\ LET new_is_day == (w.sunrise <= wall) /\ (wall <= w.sunset)
       IN  IF fail_at = "none" /\ new_is_day # is_daytime
           THEN /\ is_daytime' = new_is_day
                /\ Camera_setup(new_is_day, ok)
           ELSE UNCHANGED << is_daytime, controls, exposure_epoch >>

\* lines 166-183
sun_check ==
    /\ variant = "gemini" /\ pc = "top"
    /\ IF SunCheckDue(clock, last_sun_check)
       THEN /\ \E fail_at \in { "none", "sun", "sunrise", "sunset" },
                  w \in SunWindows, ok \in BOOLEAN :
                    /\ SunRefresh(fail_at, w, ok)
                    /\ sun_refresh' = IF fail_at = "none" THEN "ok" ELSE "failed"
            /\ last_sun_check' = clock
       ELSE /\ sun_refresh' = "none"
            /\ UNCHANGED << sunrise_time, sunset_time, is_daytime, controls,
                            exposure_epoch, last_sun_check >>
    /\ pc' = "capture"
    /\ saved' = FALSE /\ posted' = FALSE /\ send_result' = "none"
    /\ UNCHANGED << variant, exit_cause, clock, wall, PICAMERA2_AVAILABLE,
                    DISCORD_WEBHOOK, send_discord_webhook, args_no_discord, picam2,
                    video_capture, frame, prev_gray, motion_detected,
                    last_capture_time, capture_src, persist_time >>
    /\ UNCHANGED contours
    /\ UNCHANGED discord_vars

\* capture_frame(), lines 133-147, called at lines 186-191; ok = the device
\* delivered a frame
capture ==
    /\ variant = "gemini" /\ pc = "capture"
    /\ capture_src' = IF UsesPicamera2 THEN "picam2" ELSE "cv2"
    /\ sun_refresh' = "none"
    /\ \E ok \in BOOLEAN :
         IF ok /\ (IF UsesPicamera2 THEN picam2 = "started" ELSE video_capture = "opened")
         THEN /\ frame' = Some(NextFrame)
              /\ pc' = "process"
         ELSE /\ pc' = "top"
              /\ UNCHANGED frame
    /\ UNCHANGED << variant, exit_cause, clock, wall, PICAMERA2_AVAILABLE,
                    DISCORD_WEBHOOK, send_discord_webhook, args_no_discord, picam2,
                    video_capture, controls, exposure_epoch, sunrise_time,
                    sunset_time, is_daytime, last_sun_check, prev_gray,
                    motion_detected, last_capture_time, saved, persist_time,
                    send_result, posted >>
    /\ UNCHANGED contours
    /\ UNCHANGED discord_vars

\* lines 194-202 without the check of line 199: every processed frame is
\* differenced
process_NoBaselineCheck ==
    /\ variant = "gemini" /\ pc = "process"
    /\ \E ok \in BOOLEAN :
         IF ~ok
         THEN Leave("error")
         ELSE pc' = "diff" /\ UNCHANGED << exit_cause, picam2, video_capture >>
    /\ UNCHANGED << variant, clock, wall, PICAMERA2_AVAILABLE, DISCORD_WEBHOOK,
                    send_discord_webhook, args_no_discord, controls, exposure_epoch, sunrise_time, sunset_time,
                    is_daytime, last_sun_check, frame, prev_gray, motion_detected,
                    last_capture_time, capture_src, saved, persist_time,
                    send_result, posted, sun_refresh, contours >>
    /\ UNCHANGED discord_vars

\* lines 194-202; ok = resize, cvtColor and GaussianBlur did not raise
process ==
    /\ variant = "gemini" /\ pc = "process"
    /\ \E ok \in BOOLEAN :
         IF ~ok
         THEN Leave("error") /\ UNCHANGED prev_gray
         ELSE /\ IF prev_gray = None
                 THEN prev_gray' = Some(Gray(frame[1])) /\ pc' = "top"
                 ELSE pc' = "diff" /\ UNCHANGED prev_gray
              /\ UNCHANGED << exit_cause, picam2, video_capture >>
    /\ UNCHANGED << variant, clock, wall, PICAMERA2_AVAILABLE, DISCORD_WEBHOOK,
                    send_discord_webhook, args_no_discord, controls, exposure_epoch, sunrise_time, sunset_time,
                    is_daytime, last_sun_check, frame, motion_detected,
                    last_capture_time, capture_src, saved, persist_time,
                    send_result, posted,
                    sun_refresh >>
    /\ UNCHANGED contours
    /\ UNCHANGED discord_vars

\* lines 204-215; ok = absdiff, threshold, dilate and findContours did not raise
diff ==
    /\ variant = "gemini" /\ pc = "diff"
    /\ \E ok \in BOOLEAN, found \in ContourSets :
         IF ~ok
         THEN Leave("error") /\ UNCHANGED << contours, motion_detected >>
         ELSE /\ contours' = Some(found)
              /\ motion_detected' = MotionDetected(found)
              /\ pc' = "trigger"
              /\ UNCHANGED << exit_cause, picam2, video_capture >>
    /\ UNCHANGED << variant, clock, wall, PICAMERA2_AVAILABLE, DISCORD_WEBHOOK,
                    send_discord_webhook, args_no_discord, controls, exposure_epoch, sunrise_time, sunset_time,
                    is_daytime, last_sun_check, frame, prev_gray,
                    last_capture_time, capture_src, saved, persist_time,
                    send_result, posted,
                    sun_refresh >>
    /\ UNCHANGED discord_vars

\* line 217; contours is not read after line 215
trigger ==
    /\ variant = "gemini" /\ pc = "trigger"
    /\ contours' = None
    /\ pc' = IF motion_detected /\ CooldownElapsed(clock, last_capture_time)
             THEN "save" ELSE "rebase"
    /\ UNCHANGED << variant, exit_cause, clock, wall, PICAMERA2_AVAILABLE,
                    DISCORD_WEBHOOK, send_discord_webhook, args_no_discord, picam2,
                    video_capture, controls, exposure_epoch, sunrise_time,
                    sunset_time, is_daytime, last_sun_check, frame, prev_gray,
                    motion_detected, last_capture_time, capture_src, saved,
                    persist_time, send_result, posted,
                    sun_refresh >>
    /\ UNCHANGED discord_vars

\* lines 221-229: "written" = imwrite stored the file, "not_written" = imwrite
\* returned False, "raised" = cvtColor or imwrite raised (handler of line 231)
save ==
    /\ variant = "gemini" /\ pc = "save"
    /\ \E outcome \in { "written", "not_written", "raised" } :
         /\ saved' = (outcome = "written")
         /\ persist_time' = IF outcome = "written" THEN Some(clock) ELSE persist_time
         /\ pc' = IF outcome = "raised" THEN "stamp" ELSE "send"
    /\ UNCHANGED << variant, exit_cause, clock, wall, PICAMERA2_AVAILABLE,
                    DISCORD_WEBHOOK, send_discord_webhook, args_no_discord, picam2,
                    video_capture, controls, exposure_epoch, sunrise_time,
                    sunset_time, is_daytime, last_sun_check, frame, prev_gray,
                    motion_detected, last_capture_time, capture_src, send_result,
                    posted,
                    sun_refresh >>
    /\ UNCHANGED contours
    /\ UNCHANGED discord_vars

\* send_discord(IMAGE_PATH), lines 119-131, called at line 230
send_discord ==
    /\ variant = "gemini" /\ pc = "send"
    /\ \E outcome \in SendOutcomes :
         /\ send_result' = SendResult(send_discord_webhook, outcome)
         /\ posted' = (send_discord_webhook # "" /\ outcome # "file_error")
    /\ pc' = "stamp"
    /\ UNCHANGED << variant, exit_cause, clock, wall, PICAMERA2_AVAILABLE,
                    DISCORD_WEBHOOK, send_discord_webhook, args_no_discord, picam2,
                    video_capture, controls, exposure_epoch, sunrise_time,
                    sunset_time, is_daytime, last_sun_check, frame, prev_gray,
                    motion_detected, last_capture_time, capture_src, saved,
                    persist_time,
                    sun_refresh >>
    /\ UNCHANGED contours
    /\ UNCHANGED discord_vars

\* line 233
stamp ==
    /\ variant = "gemini" /\ pc = "stamp"
    /\ last_capture_time' = clock
    /\ pc' = "rebase"
    /\ UNCHANGED << variant, exit_cause, clock, wall, PICAMERA2_AVAILABLE,
                    DISCORD_WEBHOOK, send_discord_webhook, args_no_discord, picam2,
                    video_capture, controls, exposure_epoch, sunrise_time,
                    sunset_time, is_daytime, last_sun_check, frame, prev_gray,
                    motion_detected, capture_src, saved, persist_time,
                    send_result, posted,
                    sun_refresh >>
    /\ UNCHANGED contours
    /\ UNCHANGED discord_vars

\* lines 235-237 with the baseline kept while motion is detected (a fixed
\* reference)
rebase_KeepOnMotion ==
    /\ variant = "gemini" /\ pc = "rebase"
    /\ prev_gray' = IF motion_detected THEN prev_gray ELSE Some(Gray(frame[1]))
    /\ pc' = "top"
    /\ UNCHANGED << variant, exit_cause, clock, wall, PICAMERA2_AVAILABLE,
                    DISCORD_WEBHOOK, send_discord_webhook, args_no_discord, picam2,
                    video_capture, controls, exposure_epoch, sunrise_time,
                    sunset_time, is_daytime, last_sun_check, frame,
                    motion_detected, last_capture_time, capture_src, saved,
                    persist_time, send_result, posted, sun_refresh, contours >>
    /\ UNCHANGED discord_vars

\* lines 235-237
rebase ==
    /\ variant = "gemini" /\ pc = "rebase"
    /\ prev_gray' = Some(Gray(frame[1]))
    /\ pc' = "top"
    /\ UNCHANGED << variant, exit_cause, clock, wall, PICAMERA2_AVAILABLE,
                    DISCORD_WEBHOOK, send_discord_webhook, args_no_discord, picam2,
                    video_capture, controls, exposure_epoch, sunrise_time,
                    sunset_time, is_daytime, last_sun_check, frame,
                    motion_detected, last_capture_time, capture_src, saved,
                    persist_time, send_result, posted,
                    sun_refresh >>
    /\ UNCHANGED contours
    /\ UNCHANGED discord_vars

\* Ctrl-C while the try of lines 164-237 runs: handler of line 239, then the
\* finally block
KeyboardInterrupt ==
    /\ variant = "gemini" /\ pc \in LoopPcs
    /\ Leave("interrupt")
    /\ UNCHANGED << variant, clock, wall, PICAMERA2_AVAILABLE, DISCORD_WEBHOOK,
                    send_discord_webhook, args_no_discord, controls, exposure_epoch, sunrise_time, sunset_time,
                    is_daytime, last_sun_check, frame, prev_gray, motion_detected,
                    last_capture_time, capture_src, saved, persist_time,
                    send_result, posted,
                    sun_refresh >>
    /\ UNCHANGED contours
    /\ UNCHANGED discord_vars

---------------------------------------------------------------------------
\* motion_discord.py

\* the dict adjust_exposure passes to set_controls (AnalogueGain in tenths)
BrightnessControls(brightness) ==
    IF brightness < 60
    THEN [ExposureTime |-> 60000, AnalogueGain |-> 80, AeEnable |-> FALSE]
    ELSE IF brightness < 120
         THEN [ExposureTime |-> 20000, AnalogueGain |-> 30, AeEnable |-> FALSE]
         ELSE [ExposureTime |-> 2000, AnalogueGain |-> 10, AeEnable |-> FALSE]

Abs(x) == IF x < 0 THEN -x ELSE x

\* the condition of line 46 without the dwell time
ExposureChangeDue_NoDwell(brightness, last, now, last_change) ==
    Abs(brightness - last) > EXPOSURE_DIFF

\* the condition of line 46
ExposureChangeDue(brightness, last, now, last_change) ==
    Abs(brightness - last) > EXPOSURE_DIFF /\ now - last_change > EXPOSURE_DWELL

\* adjust_exposure(frame), lines 32-75, with brightness = frame.mean()
adjust_exposure(brightness) ==
    IF last_brightness = None
    THEN /\ last_brightness' = Some(brightness)
         /\ UNCHANGED << stable_frames, last_exposure_change, controls, exposure_epoch >>
    ELSE /\ IF ExposureChangeDue(brightness, last_brightness[1], clock, last_exposure_change)
            THEN /\ stable_frames' = 0
                 /\ last_exposure_change' = clock
                 /\ set_controls(BrightnessControls(brightness))
            ELSE /\ stable_frames' = stable_frames + 1
                 /\ UNCHANGED << last_exposure_change, controls, exposure_epoch >>
         /\ last_brightness' = Some(brightness)

\* line 120
PixelMotion(count) == count > PIXEL_CHANGE_LIMIT

\* line 122
CooldownOver(now, last) == now - last > COOLDOWN

\* outcome of send_to_discord(image_path), lines 85-97
SendToDiscordResult(outcome) == IF outcome = "ok" THEN "ok" ELSE "failed"

\* an exception nothing catches ends the script
Die(cause) ==
    /\ pc' = "dead"
    /\ exit_cause' = cause

\* lines 101-107; ok = capture_array and set_controls did not raise
sample ==
    /\ variant = "discord" /\ pc = "top"
    /\ stable_frames < MaxStable
    /\ saved' = FALSE /\ posted' = FALSE /\ send_result' = "none"
    /\ \E ok \in BOOLEAN, brightness \in Brightnesses :
         IF ~ok
         THEN /\ Die("error")
              /\ UNCHANGED << frame, last_brightness, stable_frames,
                              last_exposure_change, controls, exposure_epoch >>
         ELSE /\ frame' = Some(NextFrame)
              /\ adjust_exposure(brightness)
              /\ pc' = IF stable_frames' < STABLE_NEEDED THEN "top" ELSE "process"
              /\ UNCHANGED exit_cause
    /\ UNCHANGED << variant, clock, picam2, motion_detected, prev_frame,
                    last_motion_time, persist_time >>
    /\ UNCHANGED motion_pixels
    /\ UNCHANGED gemini_vars

\* lines 110-115; ok = cvtColor and GaussianBlur did not raise
process_discord ==
    /\ variant = "discord" /\ pc = "process"
    /\ \E ok \in BOOLEAN :
         IF ~ok
         THEN Die("error") /\ UNCHANGED prev_frame
         ELSE IF prev_frame = None
              THEN prev_frame' = Some(Gray(frame[1])) /\ pc' = "top" /\ UNCHANGED exit_cause
              ELSE pc' = "diff" /\ UNCHANGED << prev_frame, exit_cause >>
    /\ UNCHANGED << variant, clock, picam2, controls, exposure_epoch, frame,
                    motion_detected, last_motion_time, last_exposure_change,
                    last_brightness, stable_frames, saved, persist_time,
                    send_result, posted >>
    /\ UNCHANGED motion_pixels
    /\ UNCHANGED gemini_vars

\* lines 117-120; ok = absdiff, threshold and countNonZero did not raise
diff_discord ==
    /\ variant = "discord" /\ pc = "diff"
    /\ \E ok \in BOOLEAN, count \in PixelCounts :
         IF ~ok
         THEN Die("error") /\ UNCHANGED << motion_pixels, motion_detected >>
         ELSE /\ motion_pixels' = Some(count)
              /\ motion_detected' = PixelMotion(count)
              /\ pc' = "trigger"
              /\ UNCHANGED exit_cause
    /\ UNCHANGED << variant, clock, picam2, controls, exposure_epoch, frame,
                    prev_frame, last_motion_time, last_exposure_change,
                    last_brightness, stable_frames, saved, persist_time,
                    send_result, posted >>
    /\ UNCHANGED gemini_vars

\* line 122; motion_pixels is not read after line 123
trigger_discord ==
    /\ variant = "discord" /\ pc = "trigger"
    /\ motion_pixels' = None
    /\ pc' = IF motion_detected /\ CooldownOver(clock, last_motion_time)
             THEN "save" ELSE "rebase"
    /\ UNCHANGED << variant, exit_cause, clock, picam2, controls,
                    exposure_epoch, frame, motion_detected, prev_frame,
                    last_motion_time, last_exposure_change, last_brightness,
                    stable_frames, saved, persist_time, send_result, posted >>
    /\ UNCHANGED gemini_vars

\* lines 124-125: "written" = imwrite stored the file, "not_written" = imwrite
\* returned False, "raised" = enhance_image or imwrite raised
save_discord ==
    /\ variant = "discord" /\ pc = "save"
    /\ \E outcome \in { "written", "not_written", "raised" } :
         /\ saved' = (outcome = "written")
         /\ persist_time' = IF outcome = "written" THEN Some(clock) ELSE persist_time
         /\ IF outcome = "raised"
            THEN Die("error")
            ELSE pc' = "send" /\ UNCHANGED exit_cause
    /\ UNCHANGED << variant, clock, picam2, controls, exposure_epoch, frame,
                    motion_detected, prev_frame, last_motion_time,
                    last_exposure_change, last_brightness, stable_frames,
                    send_result, posted >>
    /\ UNCHANGED motion_pixels
    /\ UNCHANGED gemini_vars

\* send_to_discord(IMAGE_PATH), called at line 126
send_to_discord ==
    /\ variant = "discord" /\ pc = "send"
    /\ \E outcome \in SendOutcomes :
         /\ send_result' = SendToDiscordResult(outcome)
         /\ posted' = (outcome # "file_error")
    /\ IF send_result' = "raised"
       THEN Die("error")
       ELSE pc' = "stamp" /\ UNCHANGED exit_cause
    /\ UNCHANGED << variant, clock, picam2, controls, exposure_epoch, frame,
                    motion_detected, prev_frame, last_motion_time,
                    last_exposure_change, last_brightness, stable_frames,
                    saved, persist_time >>
    /\ UNCHANGED motion_pixels
    /\ UNCHANGED gemini_vars

\* line 127
stamp_discord ==
    /\ variant = "discord" /\ pc = "stamp"
    /\ last_motion_time' = clock
    /\ pc' = "rebase"
    /\ UNCHANGED << variant, exit_cause, clock, picam2, controls,
                    exposure_epoch, frame, motion_detected, prev_frame,
                    last_exposure_change, last_brightness, stable_frames,
                    saved, persist_time, send_result, posted >>
    /\ UNCHANGED motion_pixels
    /\ UNCHANGED gemini_vars

\* lines 129-130
rebase_discord ==
    /\ variant = "discord" /\ pc = "rebase"
    /\ prev_frame' = Some(Gray(frame[1]))
    /\ pc' = "top"
    /\ UNCHANGED << variant, exit_cause, clock, picam2, controls,
                    exposure_epoch, frame, motion_detected, last_motion_time,
                    last_exposure_change, last_brightness, stable_frames,
                    saved, persist_time, send_result, posted >>
    /\ UNCHANGED motion_pixels
    /\ UNCHANGED gemini_vars

\* Ctrl-C while the loop of lines 100-130 runs: nothing catches it
KeyboardInterruptDiscord ==
    /\ variant = "discord" /\ pc \in LoopPcs
    /\ Die("interrupt")
    /\ UNCHANGED << variant, clock, picam2, controls, exposure_epoch, frame,
                    motion_detected, prev_frame, last_motion_time,
                    last_exposure_change, last_brightness, stable_frames,
                    saved, persist_time, send_result, posted >>
    /\ UNCHANGED motion_pixels
    /\ UNCHANGED gemini_vars

---------------------------------------------------------------------------
\* time passes while the program runs; the time of day moves on with it
StartTime == IF variant = "discord" THEN StartEpoch ELSE 0

Tick ==
    /\ pc \in LoopPcs
    /\ clock + TimeStep <= StartTime + MaxTime
    /\ clock' = clock + TimeStep
    /\ wall' \in IF variant = "gemini" THEN { wall, (wall + 1) % DayLen } ELSE { wall }
    /\ UNCHANGED << variant, pc, exit_cause, PICAMERA2_AVAILABLE, DISCORD_WEBHOOK,
                    send_discord_webhook, args_no_discord, picam2, video_capture,
                    controls, exposure_epoch, sunrise_time, sunset_time,
                    is_daytime, last_sun_check, frame, prev_gray, motion_detected,
                    last_capture_time, capture_src, saved, persist_time,
                    send_result, posted,
                    sun_refresh >>
    /\ UNCHANGED contours
    /\ UNCHANGED discord_vars

---------------------------------------------------------------------------
\* what both programs start from
InitShared ==
    /\ exit_cause = "none"
    /\ controls = None
    /\ exposure_epoch = 0
    /\ frame = None
    /\ motion_detected = FALSE
    /\ saved = FALSE
    /\ persist_time = None
    /\ send_result = "none"
    /\ posted = FALSE
    /\ prev_gray = None
    /\ last_capture_time = 0
    /\ prev_frame = None
    /\ last_motion_time = 0
    /\ last_exposure_change = 0
    /\ last_brightness = None
    /\ stable_frames = 0
    /\ capture_src = "none"
    /\ video_capture = "None"
    /\ sun_refresh = "none"
    /\ contours = None
    /\ motion_pixels = None

\* state after the module-level code of motion_gemini.py (lines 11-85)
InitGemini ==
    /\ variant = "gemini"
    /\ pc = "main"
    /\ clock = 0
    /\ wall \in TimesOfDay
    /\ PICAMERA2_AVAILABLE \in BOOLEAN
    /\ DISCORD_WEBHOOK \in { WEBHOOK_URL, "" }
    /\ send_discord_webhook = DISCORD_WEBHOOK
    /\ args_no_discord \in IF DISCORD_WEBHOOK = "" THEN { FALSE } ELSE BOOLEAN
    /\ picam2 = "None"
    /\ \E ok \in BOOLEAN :
         /\ sunrise_time = IF ok THEN Some(FirstWindow.sunrise) ELSE None
         /\ sunset_time = IF ok THEN Some(FirstWindow.sunset) ELSE None
    /\ is_daytime = TRUE
    /\ last_sun_check = clock
    /\ InitShared

\* state after the module-level code of motion_discord.py (lines 8-29), the
\* camera having started
InitDiscord ==
    /\ variant = "discord"
    /\ pc = "top"
    /\ clock = StartEpoch
    /\ wall = 0
    /\ PICAMERA2_AVAILABLE = TRUE
    /\ DISCORD_WEBHOOK = WEBHOOK_URL
    /\ send_discord_webhook = WEBHOOK_URL
    /\ args_no_discord = FALSE
    /\ picam2 = "started"
    /\ sunrise_time = None
    /\ sunset_time = None
    /\ is_daytime = TRUE
    /\ last_sun_check = 0
    /\ InitShared

Init == InitGemini \/ InitDiscord

Next ==
    \/ main
    \/ initialize_camera
    \/ loop_entry
    \/ sun_check
    \/ capture
    \/ process
    \/ diff
    \/ trigger
    \/ save
    \/ send_discord
    \/ stamp
    \/ rebase
    \/ KeyboardInterrupt
    \/ sample
    \/ process_discord
    \/ diff_discord
    \/ trigger_discord
    \/ save_discord
    \/ send_to_discord
    \/ stamp_discord
    \/ rebase_discord
    \/ KeyboardInterruptDiscord
    \/ Tick

Spec == Init /\ [][Next]_vars

---------------------------------------------------------------------------
\* motion_discord running for an unbounded time

\* time passes once the clock has reached the end of the modelled range: the
\* clock keeps its value and every recorded time moves one step into the
\* past instead, so the differences the program computes grow as they would;
\* a recorded time stays at 0 once it lies the whole range back, which line
\* 46 and line 122 cannot tell from a larger difference
TickShift ==
    /\ variant = "discord" /\ pc \in LoopPcs
    /\ clock + TimeStep > StartTime + MaxTime
    /\ last_exposure_change' = IF last_exposure_change > TimeStep
                               THEN last_exposure_change - TimeStep ELSE 0
    /\ last_motion_time' = IF last_motion_time > TimeStep
                           THEN last_motion_time - TimeStep ELSE 0
    /\ persist_time' = IF persist_time = None THEN None
                       ELSE Some(IF persist_time[1] > TimeStep
                                 THEN persist_time[1] - TimeStep ELSE 0)
    /\ UNCHANGED << variant, pc, exit_cause, clock, picam2, controls,
                    exposure_epoch, frame, motion_detected, prev_frame,
                    last_brightness, stable_frames, motion_pixels, saved,
                    send_result, posted >>
    /\ UNCHANGED gemini_vars

\* one statement of the loop of lines 100-130
LoopStep ==
    \/ sample
    \/ process_discord
    \/ diff_discord
    \/ trigger_discord
    \/ save_discord
    \/ send_to_discord
    \/ stamp_discord
    \/ rebase_discord

NextLive ==
    \/ LoopStep
    \/ KeyboardInterruptDiscord
    \/ Tick
    \/ TickShift

\* the script is a single thread: while it has not ended, its next statement
\* is eventually executed
LiveSpec == InitDiscord /\ [][NextLive]_vars /\ WF_vars(LoopStep)

---------------------------------------------------------------------------
\* Properties

\* the motion baseline and the recorded capture time of the running program
Baseline == IF variant = "gemini" THEN prev_gray ELSE prev_frame
LastCapture == IF variant = "gemini" THEN last_capture_time ELSE last_motion_time
Cooldown == IF variant = "gemini" THEN CAPTURE_INTERVAL ELSE COOLDOWN
Terminated == pc \in { "returned", "dead" }

\* C1: no frame difference is computed between a baseline captured before an
\* exposure change and a frame captured after it: whenever the loop is about
\* to difference (absdiff of the baseline and the current frame), both were
\* taken under the same exposure settings.
C1_NoComparisonAcrossExposureChange ==
    pc = "diff" => Baseline[1].epoch = frame[1].epoch

\* C2: every recorded capture timestamp lies at least the cooldown after the
\* timestamp recorded before it, and every persisted image at least the
\* cooldown after the image persisted before it.
C2_CapturesCooldownApart ==
    [][ /\ (pc = "stamp" /\ pc' = "rebase")
            => LastCapture' - LastCapture >= Cooldown
        /\ (saved' /\ ~saved /\ persist_time # None)
            => persist_time'[1] - persist_time[1] >= Cooldown ]_vars

\* a second capture is being recorded: an earlier timestamp is on record, the
\* cooldown has passed, the image of this iteration was written and line 233
\* (line 127) is about to record its time
C2_Witness ==
    /\ pc = "stamp" /\ saved
    /\ LastCapture > StartTime
    /\ persist_time # None /\ persist_time[1] - LastCapture >= Cooldown

\* C3: the last-capture timestamp changes only in an iteration whose image
\* was persisted.
C3_StampOnlyAfterPersist ==
    [][ LastCapture' # LastCapture => saved ]_vars

\* C4: while motion_gemini runs detection with a known sun window, is_daytime
\* is true exactly when sunrise <= time of day <= sunset.
C4_ModeFollowsSunWindow ==
    ( /\ variant = "gemini"
      /\ pc \in { "capture", "process", "diff", "trigger" }
      /\ sunrise_time # None /\ sunset_time # None )
    => ( is_daytime <=> (sunrise_time[1] <= wall /\ wall <= sunset_time[1]) )

\* C5: with --no-discord given, no HTTP POST is issued for any capture.
C5_NoPostWhenDisabled ==
    args_no_discord => ~posted

\* C6: once the camera is initialised the loop ends only on an operator
\* interrupt.
C6_LoopEndsOnlyOnInterrupt ==
    Terminated => exit_cause = "interrupt"

\* C7: a failure of the notification sink never propagates out of the send;
\* unless the operator interrupts, the loop goes on from the send to record
\* the capture time, from there to make the current frame the baseline, and
\* from there to the next iteration.
C7_SendFailureContained ==
    [][ /\ send_result' # "raised"
        /\ (pc = "send" /\ pc' # "send" /\ exit_cause' # "interrupt")
            => pc' = "stamp"
        /\ (send_result = "failed" /\ pc = "stamp" /\ pc' # "stamp" /\ exit_cause' # "interrupt")
            => (pc' = "rebase" /\ LastCapture' = clock)
        /\ (send_result = "failed" /\ pc = "rebase" /\ pc' # "rebase" /\ exit_cause' # "interrupt")
            => (pc' = "top" /\ Baseline' = Some(Gray(frame[1]))) ]_vars

\* an iteration whose send failed has finished and the next one is starting
C7_Witness ==
    /\ send_result = "failed" /\ pc = "top" /\ exit_cause = "none"
    /\ LastCapture = clock
    /\ Baseline = Some(Gray(frame[1]))

\* C8: when the loop has ended on an operator interrupt the camera device has
\* been released: no device is left started or opened.
C8_CameraReleasedOnInterrupt ==
    (exit_cause = "interrupt" /\ Terminated)
    => (picam2 # "started" /\ video_capture # "opened")

\* C9: a sun refresh that fails leaves sunrise_time, sunset_time and
\* is_daytime as they were and issues no camera reconfiguration.
C9_FailedRefreshKeepsWindow ==
    [][ sun_refresh' = "failed"
        => UNCHANGED << sunrise_time, sunset_time, is_daytime, controls,
                        exposure_epoch >> ]_vars

\* C10: every capture_frame call reads from the backend initialize_camera
\* initialised, and initialize_camera fails only when neither backend could
\* be initialised.
C10_CaptureUsesInitialisedBackend ==
    /\ (variant = "gemini" /\ pc \in LoopPcs /\ capture_src # "none")
        => capture_src = (IF picam2 = "started" THEN "picam2" ELSE "cv2")
    /\ pc = "fatal" => (picam2 # "started" /\ video_capture # "opened")

\* C11: a positive detection is acted on exactly when the time since the last
\* recorded capture is at least the cooldown: the step that decides on a
\* detected motion goes on to persist the image if and only if
\* clock - last timestamp >= cooldown (equality included), and otherwise
\* suppresses it.
C11_ActedOnIffCooldownReached ==
    [][ (pc = "trigger" /\ motion_detected /\ pc' \in { "save", "rebase" })
        => (pc' = "save" <=> clock - LastCapture >= Cooldown) ]_vars

\* C12: under the pixel-count strategy motion is signalled if and only if the
\* number of changed pixels is at least PIXEL_CHANGE_LIMIT; exactly
\* PIXEL_CHANGE_LIMIT changed pixels signal a detection.
C12_PixelCountAtLeastLimit ==
    (variant = "discord" /\ pc = "trigger")
    => (motion_detected <=> motion_pixels[1] >= PIXEL_CHANGE_LIMIT)

\* C13: a capture that fails is transient: the step that takes the capture
\* and delivers no frame leaves the loop at the top of its next iteration,
\* with the baseline, the last-capture timestamp and the day/night mode as
\* they were and nothing persisted or sent.
C13_CaptureFailureTransient ==
    [][ ( \/ (variant = "gemini" /\ pc = "capture" /\ pc' \notin { "capture", "process" })
          \/ (variant = "discord" /\ pc = "top" /\ pc' # "top" /\ frame' = frame) )
        /\ exit_cause' # "interrupt"
        => /\ pc' = "top"
           /\ UNCHANGED << Baseline, LastCapture, is_daytime, controls >>
           /\ ~saved' /\ ~posted' ]_vars

\* C14: while the baseline is absent no detection is evaluated: the loop is
\* never at the differencing, the decision, the persist, the send or the
\* timestamp with an absent baseline, and the step that meets an absent
\* baseline at the detection step makes the current processed frame the
\* baseline and starts the next iteration, with the detection result, the
\* cooldown timestamp and the persisted and sent state untouched.
C14_NoDetectionWithoutBaseline ==
    /\ [](pc \in { "diff", "trigger", "save", "send", "stamp", "rebase" }
            => Baseline # None)
    /\ [][ (pc = "process" /\ Baseline = None /\ pc' # "process" /\ ~Terminated')
           => /\ pc' = "top"
              /\ Baseline' = Some(Gray(frame[1]))
              /\ UNCHANGED << LastCapture, motion_detected, contours,
                              motion_pixels, saved, persist_time, posted,
                              send_result >> ]_vars

\* the first processed frame has become the baseline and the next iteration
\* starts: nothing was detected, captured or sent
C14_Witness ==
    /\ pc = "top" /\ frame # None
    /\ Baseline = Some(Gray(frame[1]))
    /\ ~motion_detected /\ LastCapture = 0 /\ persist_time = None
    /\ ~saved /\ ~posted

\* C15: every iteration that processed a frame for detection ends with that
\* frame as the baseline, whatever the detection, the cooldown, the persist
\* and the send did; the baseline changes at no other point, and in
\* motion_gemini, where every captured frame is processed, the baseline at
\* the differencing is the frame captured just before the current one.
C15_BaselineIsPrecedingFrame ==
    /\ [][ (pc \in { "process", "diff", "trigger", "save", "send", "stamp", "rebase" }
            /\ pc' = "top")
           => Baseline' = Some(Gray(frame[1])) ]_vars
    /\ [][ Baseline' # Baseline
           => (pc' = "top" /\ frame' = frame /\ Baseline' = Some(Gray(frame[1]))) ]_vars
    /\ []((variant = "gemini" /\ pc = "diff")
            => frame[1].seq = (Baseline[1].seq + 1) % NumSeq)

\* an iteration that detected motion and was suppressed by the cooldown, or
\* whose persist raised, has ended: its frame is the baseline
C15_Witness ==
    /\ pc = "top" /\ motion_detected /\ ~saved /\ send_result = "none"
    /\ LastCapture > 0
    /\ Baseline = Some(Gray(frame[1]))

\* C16: motion_discord reconfigures the camera (sets controls, restarts the
\* stabilisation count, records the time) only when the brightness differs
\* from the previous sample by more than 70 and more than 15 s have passed
\* since the last recorded reconfiguration; the time it records is the
\* current one, so two consecutive reconfigurations are more than 15 s apart.
C16_ReconfigurationsDwellApart ==
    [][ ( /\ variant = "discord"
          /\ \/ last_exposure_change' # last_exposure_change
             \/ controls' # controls
             \/ exposure_epoch' # exposure_epoch
             \/ stable_frames' < stable_frames )
        => /\ last_brightness # None
           /\ Abs(last_brightness'[1] - last_brightness[1]) > EXPOSURE_DIFF
           /\ clock - last_exposure_change > EXPOSURE_DWELL
           /\ last_exposure_change' = clock
           /\ last_exposure_change' - last_exposure_change > EXPOSURE_DWELL ]_vars

\* a second reconfiguration has just been made, more than the dwell time
\* after the first
C16_Witness ==
    /\ variant = "discord" /\ exposure_epoch = 2 /\ stable_frames = 0
    /\ last_exposure_change = clock
    /\ last_exposure_change - StartEpoch > EXPOSURE_DWELL

\* C17: with the Picamera2 device in use, a sun check that flips is_daytime
\* leaves the device with the controls of the new mode: the flip is never
\* recorded while the device keeps the controls of the old mode.
C17_FlipAppliesControls ==
    [][ (variant = "gemini" /\ picam2 = "started" /\ is_daytime' # is_daytime)
        => controls' = Some(DayNightControls(is_daytime', CAMERA_NOIR)) ]_vars

\* C18: a sun-window refresh is attempted only at the top of an iteration,
\* only when more than SUN_CHECK_INTERVAL has passed since the attempt before
\* it, and it records the current time whether it succeeds or fails, so two
\* consecutive attempts are more than SUN_CHECK_INTERVAL apart; the refresh
\* of an iteration is complete when that iteration's capture starts and none
\* runs during the capture or the detection.
C18_RefreshOncePerInterval ==
    /\ [][ ( /\ variant = "gemini" /\ pc \in LoopPcs
             /\ \/ (sun_refresh' # sun_refresh /\ sun_refresh' # "none")
                \/ last_sun_check' # last_sun_check
                \/ sunrise_time' # sunrise_time
                \/ sunset_time' # sunset_time
                \/ is_daytime' # is_daytime )
           => /\ pc = "top" /\ pc' = "capture"
              /\ clock - last_sun_check > SUN_CHECK_INTERVAL
              /\ last_sun_check' = clock
              /\ sun_refresh' \in { "ok", "failed" } ]_vars
    /\ [](sun_refresh # "none" => pc \in { "capture", "returned" })

\* a second refresh has just completed: the first one switched to night, this
\* one back to day, and the capture of the iteration is about to start
C18_Witness ==
    /\ variant = "gemini" /\ pc = "capture" /\ sun_refresh = "ok"
    /\ is_daytime /\ exposure_epoch = 3
    /\ last_sun_check = clock /\ clock > 2 * SUN_CHECK_INTERVAL

C20_DetectionAlwaysResumes ==
    /\ []((variant = "discord"
           /\ pc \in { "process", "diff", "trigger", "save", "send", "stamp", "rebase" })
            => stable_frames >= STABLE_NEEDED)
    /\ [][ (variant = "discord" /\ pc = "top" /\ stable_frames' < STABLE_NEEDED)
           => /\ pc' \in { "top", "dead" }
              /\ UNCHANGED << prev_frame, motion_detected >>
              /\ last_motion_time' <= last_motion_time
              /\ ~saved' /\ ~posted' ]_vars
    /\ [][ (variant = "discord"
            /\ (last_exposure_change' > last_exposure_change \/ controls' # controls))
           => stable_frames' = 0 ]_vars
    /\ [][ stable_frames' # stable_frames
           => \/ stable_frames' = 0
              \/ (stable_frames' = stable_frames + 1 /\ UNCHANGED controls) ]_vars
    /\ ((variant = "discord" /\ pc = "top" /\ stable_frames < STABLE_NEEDED)
            ~> (pc = "process" \/ Terminated))

\* C21: a send is attempted only for an image persisted in the same
\* iteration: the loop is at the send only with the image written, a POST is
\* issued only with the image written, and an iteration writes at most once
\* and sends at most once (the write starts with nothing written or sent in
\* this iteration, the send with nothing sent).
C21_SendOnlyAfterPersist ==
    /\ pc = "send" => (saved /\ ~posted /\ send_result = "none")
    /\ posted => saved
    /\ pc = "save" => (~saved /\ ~posted /\ send_result = "none")

=============================================================================
